---- MODULE Spec2Model ----
(***************************************************************************)
(* Model of scripts/remove_interior_lines.py (Wall Extractor) and          *)
(* scripts/generate_floor_mask.py (Floor Filler).                          *)
(*                                                                         *)
(* Images are row-major flat arrays: pixel (x, y) of a grid of width w is  *)
(* element y*w + x + 1 of a sequence.  The stack holds <<x, y>> pairs as   *)
(* the code pushes them.                                                   *)
(***************************************************************************)
EXTENDS Integers, Sequences, FiniteSets, TLC

VARIABLES
    prog,       \* entry point that was called
    pc,         \* position in the running function
    argc,       \* len(sys.argv)
    inputOk,    \* Image.open(input_path) succeeds
    textureOk,  \* Image.open(default_tex) succeeds
    h, w,       \* image shape
    gray,       \* grayscale input
    threshold,  \* otsu_threshold: threshold
    max_var,    \* otsu_threshold: max_var, <<>> for the -1.0 sentinel, else <<num, den>>
    pil,        \* the PIL image being filtered (binary/opened/dilated/thinned/pil), 0 or 255
    iter,       \* iterations of the current filter loop already done
    mask,       \* connected_components: mask
    labels,     \* connected_components: labels
    stats,      \* connected_components: stats
    current,    \* connected_components: current
    stack,      \* the traversal stack (connected_components, border flood fill)
    area, min_x, max_x, min_y, max_y,   \* connected_components: running statistics
    pos,        \* connected_components: next pixel of the row-major scan
    clean,      \* filtered mask
    walls,      \* generate_floor_mask: walls
    outside,    \* generate_floor_mask: outside
    tex,        \* texture resource: [th, tw, px]
    out,        \* array handed to save()
    files,      \* number of output files written
    exitcode,   \* sys.exit status, -1 while none
    pushed,     \* per pixel: number of stack.append of that pixel in the current traversal
    popped      \* per pixel: number of stack.pop of that pixel in the current traversal

vars == <<prog, pc, argc, inputOk, textureOk, h, w, gray, threshold, max_var, pil, iter,
          mask, labels, stats, current, stack, area, min_x, max_x, min_y, max_y, pos,
          clean, walls, outside, tex, out, files, exitcode, pushed, popped>>

(***************************************************************************)
(* Bounds of the model.                                                    *)
(***************************************************************************)
MaxPixels == 12
MaxOtsuPix == 3

(***************************************************************************)
(* Program constants.                                                      *)
(***************************************************************************)
MIN_WALL_THICKNESS_PX == 6
MIN_COMPONENT_AREA_PX == 1200
DILATION_ITERATIONS == 2
EROSION_ITERATIONS == 6
WALL_THRESHOLD == 40
MIN_FLOOR_AREA_PX == 500
SMOOTH_ITERATIONS == 1

(***************************************************************************)
(* Grid helpers.                                                           *)
(***************************************************************************)
Idx(x, y, ww) == y * ww + x + 1
XOf(i, ww) == (i - 1) % ww
YOf(i, ww) == (i - 1) \div ww
InGrid(x, y, hh, ww) == 0 <= x /\ x < ww /\ 0 <= y /\ y < hh
Fill(n, v) == [i \in 1..n |-> v]
Min2(a, b) == IF a < b THEN a ELSE b
Max2(a, b) == IF a > b THEN a ELSE b
SetMin(S) == CHOOSE m \in S : \A k \in S : m <= k
SetMax(S) == CHOOSE m \in S : \A k \in S : m >= k

\* for dx, dy in ((1, 0), (-1, 0), (0, 1), (0, -1))
Offsets8 == << <<1, 0>>, <<-1, 0>>, <<0, 1>>, <<0, -1>>,
               <<1, 1>>, <<-1, -1>>, <<1, -1>>, <<-1, 1>> >>
Offsets == << <<1, 0>>, <<-1, 0>>, <<0, 1>>, <<0, -1>> >>

(***************************************************************************)
(* connected_components                                                    *)
(***************************************************************************)
\* The neighbour loop of one popped pixel (cx, cy), from offset k on:
\* an in-range foreground neighbour with label -1 is labelled and pushed.
RECURSIVE CCVisit(_, _, _, _)
CCVisit(k, cx, cy, st) ==
    IF k > Len(Offsets) THEN st
    ELSE LET nx == cx + Offsets[k][1]
             ny == cy + Offsets[k][2]
         IN  IF ~InGrid(nx, ny, h, w) THEN CCVisit(k + 1, cx, cy, st)
             ELSE IF mask[Idx(nx, ny, w)] = 0 \/ st.labels[Idx(nx, ny, w)] # -1
                  THEN CCVisit(k + 1, cx, cy, st)
                  ELSE CCVisit(k + 1, cx, cy,
                         [labels |-> [st.labels EXCEPT ![Idx(nx, ny, w)] = current],
                          stack  |-> Append(st.stack, <<nx, ny>>),
                          pushed |-> [st.pushed EXCEPT ![Idx(nx, ny, w)] = @ + 1]])

\* The (min_x, min_y, width, height, area) row appended for a finished component.
StatsRowNoPlusOne(mnx, mny, mxx, mxy, a) == <<mnx, mny, mxx - mnx, mxy - mny, a>>
StatsRow(mnx, mny, mxx, mxy, a) == <<mnx, mny, mxx - mnx + 1, mxy - mny + 1, a>>

\* Where connected_components returns to.
CCReturn == IF prog = "connected_components" THEN "done"
            ELSE IF prog = "generate_floor_mask" THEN "ff_filter"
            ELSE "we_filter"

\* The state connected_components starts in when called on mask m.
CCEnter(m) ==
    /\ mask' = m
    /\ labels' = Fill(Len(m), -1)
    /\ stats' = <<>>
    /\ current' = 0
    /\ stack' = <<>>
    /\ pos' = 1
    /\ pushed' = Fill(Len(m), 0)
    /\ popped' = Fill(Len(m), 0)
    /\ pc' = "cc_scan"

\* The row-major scan up to the next unlabelled foreground pixel, which seeds a
\* component; with none left the function returns.
CC_Seed ==
    /\ pc = "cc_scan"
    /\ LET cand == {i \in pos..(h * w) : mask[i] # 0 /\ labels[i] = -1}
       IN  IF cand = {}
           THEN /\ pc' = CCReturn
                /\ pos' = h * w + 1
                /\ UNCHANGED <<labels, stack, area, min_x, max_x, min_y, max_y, pushed>>
           ELSE LET i == SetMin(cand)
                    x == XOf(i, w)
                    y == YOf(i, w)
                IN  /\ stack' = Append(stack, <<x, y>>)
                    /\ pushed' = [pushed EXCEPT ![i] = @ + 1]
                    /\ labels' = [labels EXCEPT ![i] = current]
                    /\ area' = 0
                    /\ min_x' = x /\ max_x' = x
                    /\ min_y' = y /\ max_y' = y
                    /\ pos' = i + 1
                    /\ pc' = "cc_fill"
    /\ UNCHANGED <<prog, argc, inputOk, textureOk, h, w, gray, threshold, max_var, pil,
                   iter, mask, stats, current, clean, walls, outside, tex, out, files,
                   exitcode, popped>>

\* One iteration of "while stack"; when it empties the stack the component's
\* stats row is appended and current is incremented.
CC_Pop ==
    /\ pc = "cc_fill"
    /\ stack # <<>>
    /\ LET top == stack[Len(stack)]
           cx  == top[1]
           cy  == top[2]
           st  == CCVisit(1, cx, cy, [labels |-> labels,
                                      stack  |-> SubSeq(stack, 1, Len(stack) - 1),
                                      pushed |-> pushed])
           nmnx == Min2(min_x, cx)
           nmxx == Max2(max_x, cx)
           nmny == Min2(min_y, cy)
           nmxy == Max2(max_y, cy)
       IN  /\ popped' = [popped EXCEPT ![Idx(cx, cy, w)] = @ + 1]
           /\ area' = area + 1
           /\ min_x' = nmnx /\ max_x' = nmxx
           /\ min_y' = nmny /\ max_y' = nmxy
           /\ labels' = st.labels
           /\ stack' = st.stack
           /\ pushed' = st.pushed
           /\ IF st.stack = <<>>
              THEN /\ stats' = Append(stats, StatsRow(nmnx, nmny, nmxx, nmxy, area + 1))
                   /\ current' = current + 1
                   /\ pc' = "cc_scan"
              ELSE /\ UNCHANGED <<stats, current>>
                   /\ pc' = "cc_fill"
    /\ UNCHANGED <<prog, argc, inputOk, textureOk, h, w, gray, threshold, max_var, pil,
                   iter, mask, pos, clean, walls, outside, tex, out, files, exitcode>>

(***************************************************************************)
(* generate_floor_mask: binarization and border flood fill                 *)
(***************************************************************************)
\* walls = (gray < WALL_THRESHOLD)
IsWall(v) == v < WALL_THRESHOLD

FF_Binarize ==
    /\ pc = "ff_binarize"
    /\ walls' = [i \in 1..Len(gray) |-> IF IsWall(gray[i]) THEN 1 ELSE 0]
    /\ outside' = Fill(Len(gray), 0)
    /\ stack' = <<>>
    /\ pushed' = Fill(Len(gray), 0)
    /\ popped' = Fill(Len(gray), 0)
    /\ pc' = "ff_seed"
    /\ UNCHANGED <<prog, argc, inputOk, textureOk, h, w, gray, threshold, max_var, pil,
                   iter, mask, labels, stats, current, area, min_x, max_x, min_y, max_y,
                   pos, clean, tex, out, files, exitcode>>

\* push_if_valid(x, y) applied to st = [outside, stack, pushed]
push_if_valid_unmarked(x, y, st) ==
    IF InGrid(x, y, h, w) /\ walls[Idx(x, y, w)] = 0
    THEN [outside |-> [st.outside EXCEPT ![Idx(x, y, w)] = 1],
          stack   |-> Append(st.stack, <<x, y>>),
          pushed  |-> [st.pushed EXCEPT ![Idx(x, y, w)] = @ + 1]]
    ELSE st
push_if_valid(x, y, st) ==
    IF InGrid(x, y, h, w) /\ walls[Idx(x, y, w)] = 0 /\ st.outside[Idx(x, y, w)] = 0
    THEN [outside |-> [st.outside EXCEPT ![Idx(x, y, w)] = 1],
          stack   |-> Append(st.stack, <<x, y>>),
          pushed  |-> [st.pushed EXCEPT ![Idx(x, y, w)] = @ + 1]]
    ELSE st

\* The seeding calls in program order: for x: (x, 0), (x, h-1); for y: (0, y), (w-1, y).
SeedCallsRowsOnly == [k \in 1..(2 * w) |->
                        IF k % 2 = 1 THEN <<(k - 1) \div 2, 0>>
                        ELSE <<(k - 1) \div 2, h - 1>>]
SeedCalls == [k \in 1..(2 * w + 2 * h) |->
                IF k <= 2 * w
                THEN (IF k % 2 = 1 THEN <<(k - 1) \div 2, 0>>
                      ELSE <<(k - 1) \div 2, h - 1>>)
                ELSE (IF (k - 2 * w) % 2 = 1 THEN <<0, (k - 2 * w - 1) \div 2>>
                      ELSE <<w - 1, (k - 2 * w - 1) \div 2>>)]

\* push_if_valid on calls[lo..hi] in order (split in halves to keep the
\* evaluation shallow).
RECURSIVE PushAll(_, _, _, _)
PushAll(calls, lo, hi, st) ==
    IF lo > hi THEN st
    ELSE IF lo = hi THEN push_if_valid(calls[lo][1], calls[lo][2], st)
    ELSE LET mid == (lo + hi) \div 2
             fst == PushAll(calls, lo, mid, st)
         IN  IF Len(fst.stack) >= Len(st.stack)
             THEN PushAll(calls, mid + 1, hi, fst)
             ELSE st

FF_Seed ==
    /\ pc = "ff_seed"
    /\ LET st == PushAll(SeedCalls, 1, Len(SeedCalls), [outside |-> outside, stack |-> stack,
                                        pushed |-> pushed])
       IN  /\ outside' = st.outside
           /\ stack' = st.stack
           /\ pushed' = st.pushed
           /\ pc' = IF st.stack = <<>> THEN "ff_floor" ELSE "ff_flood"
    /\ UNCHANGED <<prog, argc, inputOk, textureOk, h, w, gray, threshold, max_var, pil,
                   iter, mask, labels, stats, current, area, min_x, max_x, min_y, max_y,
                   pos, clean, walls, tex, out, files, exitcode, popped>>

\* One iteration of the flood fill's "while stack".
FF_Pop ==
    /\ pc = "ff_flood"
    /\ stack # <<>>
    /\ LET top == stack[Len(stack)]
           cx  == top[1]
           cy  == top[2]
           nb  == [k \in 1..Len(Offsets) |-> <<cx + Offsets[k][1], cy + Offsets[k][2]>>]
           st  == PushAll(nb, 1, Len(nb), [outside |-> outside,
                                  stack   |-> SubSeq(stack, 1, Len(stack) - 1),
                                  pushed  |-> pushed])
       IN  /\ popped' = [popped EXCEPT ![Idx(cx, cy, w)] = @ + 1]
           /\ outside' = st.outside
           /\ stack' = st.stack
           /\ pushed' = st.pushed
           /\ pc' = IF st.stack = <<>> THEN "ff_floor" ELSE "ff_flood"
    /\ UNCHANGED <<prog, argc, inputOk, textureOk, h, w, gray, threshold, max_var, pil,
                   iter, mask, labels, stats, current, area, min_x, max_x, min_y, max_y,
                   pos, clean, walls, tex, out, files, exitcode>>

\* floor = (walls == 0) & (outside == 0); labels, stats = connected_components(floor)
FF_Floor ==
    /\ pc = "ff_floor"
    /\ CCEnter([i \in 1..(h * w) |-> IF walls[i] = 0 /\ outside[i] = 0 THEN 1 ELSE 0])
    /\ UNCHANGED <<prog, argc, inputOk, textureOk, h, w, gray, threshold, max_var, pil,
                   iter, area, min_x, max_x, min_y, max_y, clean, walls, outside, tex,
                   out, files, exitcode>>

(***************************************************************************)
(* otsu_threshold                                                          *)
(*                                                                         *)
(* var_between = w_b * w_f * (m_b - m_f)^2 equals A^2 / (w_b * w_f) with   *)
(* A = sum_b * w_f - (sum_total - sum_b) * w_b.  It is kept as <<|A|, D>>  *)
(* and two values are compared exactly, A1^2 * D2 > A2^2 * D1, on          *)
(* little-endian base-1000 digit sequences (the products exceed 32 bits).  *)
(* float64 rounding is not modelled: equal rationals computed from equal   *)
(* operands give equal floats, and distinct ones here differ by far more   *)
(* than a rounding error.                                                  *)
(***************************************************************************)
RECURSIVE Big(_)
Big(n) == IF n = 0 THEN <<>> ELSE <<n % 1000>> \o Big(n \div 1000)

RECURSIVE BigAdd(_, _, _)
BigAdd(a, b, carry) ==
    IF a = <<>> /\ b = <<>>
    THEN (IF carry = 0 THEN <<>> ELSE <<carry>>)
    ELSE LET da == IF a = <<>> THEN 0 ELSE Head(a)
             db == IF b = <<>> THEN 0 ELSE Head(b)
             ta == IF a = <<>> THEN <<>> ELSE Tail(a)
             tb == IF b = <<>> THEN <<>> ELSE Tail(b)
             sm == da + db + carry
         IN  <<sm % 1000>> \o BigAdd(ta, tb, sm \div 1000)

RECURSIVE BigScale(_, _, _)
BigScale(b, d, carry) ==
    IF b = <<>> THEN Big(carry)
    ELSE LET pr == Head(b) * d + carry
         IN  <<pr % 1000>> \o BigScale(Tail(b), d, pr \div 1000)

RECURSIVE BigMul(_, _)
BigMul(a, b) ==
    IF a = <<>> THEN <<>>
    ELSE BigAdd(BigScale(b, Head(a), 0), <<0>> \o BigMul(Tail(a), b), 0)

RECURSIVE BigTrim(_)
BigTrim(a) ==
    IF a # <<>> /\ a[Len(a)] = 0 THEN BigTrim(SubSeq(a, 1, Len(a) - 1)) ELSE a

RECURSIVE BigGTDigits(_, _, _)
BigGTDigits(a, b, k) ==
    IF k = 0 THEN FALSE
    ELSE IF a[k] # b[k] THEN a[k] > b[k]
    ELSE BigGTDigits(a, b, k - 1)

BigGT(a, b) ==
    LET ta == BigTrim(a)
        tb == BigTrim(b)
    IN  IF Len(ta) # Len(tb) THEN Len(ta) > Len(tb)
        ELSE BigGTDigits(ta, tb, Len(ta))

Abs(n) == IF n < 0 THEN -n ELSE n

\* var_between > max_var
VarGreater(v, mv) ==
    IF mv = <<>> THEN TRUE
    ELSE BigGT(BigMul(BigMul(Big(v[1]), Big(v[1])), Big(mv[2])),
               BigMul(BigMul(Big(mv[1]), Big(mv[1])), Big(v[2])))

\* hist, _ = np.histogram(gray, bins=256, range=(0, 256))
Histogram(g) ==
    LET present == {g[i] : i \in DOMAIN g}
    IN  [v \in 0..255 |-> IF v \in present
                          THEN Cardinality({i \in DOMAIN g : g[i] = v})
                          ELSE 0]

\* sum_b = 0.0; w_b = 0.0; max_var = -1.0; threshold = 0
\* (broke: the loop has left through "break")
OtsuStartMid == [sum_b |-> 0, w_b |-> 0, max_var |-> <<>>, threshold |-> 128,
                 broke |-> FALSE]
OtsuStart == [sum_b |-> 0, w_b |-> 0, max_var |-> <<>>, threshold |-> 0,
              broke |-> FALSE]

\* One iteration of "for t in range(256)".
OtsuStep(hist, total, sum_total, t, st) ==
    IF st.broke THEN st
    ELSE LET wb == st.w_b + hist[t]
         IN  IF wb = 0 THEN [st EXCEPT !.w_b = wb]
             ELSE LET wf == total - wb
                  IN  IF wf = 0 THEN [st EXCEPT !.w_b = wb, !.broke = TRUE]
                      ELSE LET sb == st.sum_b + t * hist[t]
                               vb == <<Abs(sb * wf - (sum_total - sb) * wb), wb * wf>>
                           IN  IF VarGreater(vb, st.max_var)
                               THEN [sum_b |-> sb, w_b |-> wb, max_var |-> vb,
                                     threshold |-> t, broke |-> FALSE]
                               ELSE [st EXCEPT !.sum_b = sb, !.w_b = wb]

\* The iterations lo..hi in order (split in halves to keep the evaluation shallow).
RECURSIVE OtsuLoop(_, _, _, _, _, _)
OtsuLoop(hist, total, sum_total, lo, hi, st) ==
    IF lo = hi THEN OtsuStep(hist, total, sum_total, lo, st)
    ELSE LET mid == (lo + hi) \div 2
             fst == OtsuLoop(hist, total, sum_total, lo, mid, st)
         IN  IF fst.broke THEN fst
             ELSE OtsuLoop(hist, total, sum_total, mid + 1, hi, fst)

\* np.dot(np.arange(256), hist)
RECURSIVE DotRange(_, _, _)
DotRange(hist, lo, hi) ==
    IF lo = hi THEN lo * hist[lo]
    ELSE DotRange(hist, lo, (lo + hi) \div 2) + DotRange(hist, (lo + hi) \div 2 + 1, hi)

otsu_threshold(g) ==
    LET hist == Histogram(g)
    IN  OtsuLoop(hist, Len(g), DotRange(hist, 0, 255), 0, 255, OtsuStart)

(***************************************************************************)
(* remove_interior_lines                                                   *)
(***************************************************************************)
\* t = otsu_threshold(gray)
WE_Otsu ==
    /\ pc = "we_otsu"
    /\ LET r == otsu_threshold(gray)
       IN  /\ threshold' = r.threshold
           /\ max_var' = r.max_var
    /\ pc' = "we_binarize"
    /\ UNCHANGED <<prog, argc, inputOk, textureOk, h, w, gray, pil, iter, mask, labels,
                   stats, current, stack, area, min_x, max_x, min_y, max_y, pos, clean,
                   walls, outside, tex, out, files, exitcode, pushed, popped>>

\* binary = (gray < t).astype(np.uint8) * 255
Binarize(g, t) == [i \in 1..Len(g) |-> IF g[i] < t THEN 255 ELSE 0]

WE_Binarize ==
    /\ pc = "we_binarize"
    /\ pil' = Binarize(gray, threshold)
    /\ pc' = "we_open_erode"
    /\ UNCHANGED <<prog, argc, inputOk, textureOk, h, w, gray, threshold, max_var, iter,
                   mask, labels, stats, current, stack, area, min_x, max_x, min_y, max_y,
                   pos, clean, walls, outside, tex, out, files, exitcode, pushed, popped>>

(***************************************************************************)
(* ImageFilter.MinFilter / MaxFilter: the minimum / maximum over the        *)
(* size x size window centred on the pixel.  Pillow pads the image by       *)
(* repeating its edge pixels before a rank filter, which for a minimum or a *)
(* maximum is the same as clipping the window to the image.                 *)
(***************************************************************************)
Window(i, r) ==
    {Idx(x, y, w) : x \in Max2(0, XOf(i, w) - r)..Min2(w - 1, XOf(i, w) + r),
                    y \in Max2(0, YOf(i, w) - r)..Min2(h - 1, YOf(i, w) + r)}

MinFilter(img, size) ==
    [i \in 1..Len(img) |-> SetMin({img[j] : j \in Window(i, size \div 2)})]

MaxFilter(img, size) ==
    [i \in 1..Len(img) |-> SetMax({img[j] : j \in Window(i, size \div 2)})]

\* n | 1
OrOne(n) == IF n % 2 = 0 THEN n + 1 ELSE n

\* size = max(1, MIN_WALL_THICKNESS_PX | 1)
OpeningSize == Max2(1, OrOne(MIN_WALL_THICKNESS_PX))
\* erosion_size = max(1, (MIN_WALL_THICKNESS_PX // 2) | 1)
ErosionSize == Max2(1, OrOne(MIN_WALL_THICKNESS_PX \div 2))

\* (np.array(img) > 0).astype(np.uint8)
ToMask(img) == [i \in 1..Len(img) |-> IF img[i] > 0 THEN 1 ELSE 0]
\* (m * 255).astype(np.uint8)
ToImage(m) == [i \in 1..Len(m) |-> m[i] * 255]

\* keep = {idx : area >= min_area}; clean[labels == idx] = 1 for idx in keep
KeptMask(lab, sts, min_area) ==
    [i \in 1..Len(lab) |->
        IF lab[i] >= 0 /\ sts[lab[i] + 1][5] >= min_area THEN 1 ELSE 0]

\* final = (1 - clean) * 255
NoInvert(m) == [i \in 1..Len(m) |-> m[i] * 255]
Invert(m) == [i \in 1..Len(m) |-> (1 - m[i]) * 255]

\* if len(sys.argv) < 3: print usage; sys.exit(1); else call the function
Main ==
    /\ pc = "main"
    /\ IF argc < 3
       THEN pc' = "usage" /\ exitcode' = 1
       ELSE /\ pc' = IF prog = "remove_interior_lines" THEN "we_load" ELSE "ff_load"
            /\ UNCHANGED exitcode
    /\ UNCHANGED <<prog, argc, inputOk, textureOk, h, w, gray, threshold, max_var, pil,
                   iter, mask, labels, stats, current, stack, area, min_x, max_x, min_y,
                   max_y, pos, clean, walls, outside, tex, out, files, pushed, popped>>

\* img = Image.open(input_path).convert("L"); gray = np.array(img)
WE_Load ==
    /\ pc = "we_load"
    /\ IF inputOk
       THEN pc' = "we_otsu" /\ UNCHANGED exitcode
       ELSE pc' = "failed" /\ exitcode' = 1
    /\ UNCHANGED <<prog, argc, inputOk, textureOk, h, w, gray, threshold, max_var, pil,
                   iter, mask, labels, stats, current, stack, area, min_x, max_x, min_y,
                   max_y, pos, clean, walls, outside, tex, out, files, pushed, popped>>

\* opened = Image.fromarray(binary).filter(ImageFilter.MinFilter(size=size))
WE_OpenErode ==
    /\ pc = "we_open_erode"
    /\ pil' = MinFilter(pil, OpeningSize)
    /\ pc' = "we_open_dilate"
    /\ UNCHANGED <<prog, argc, inputOk, textureOk, h, w, gray, threshold, max_var, iter,
                   mask, labels, stats, current, stack, area, min_x, max_x, min_y, max_y,
                   pos, clean, walls, outside, tex, out, files, exitcode, pushed, popped>>

\* opened = opened.filter(ImageFilter.MaxFilter(size=size))
WE_OpenDilate ==
    /\ pc = "we_open_dilate"
    /\ pil' = MaxFilter(pil, OpeningSize)
    /\ iter' = 0
    /\ pc' = IF DILATION_ITERATIONS > 0 THEN "we_dilate" ELSE "we_label"
    /\ UNCHANGED <<prog, argc, inputOk, textureOk, h, w, gray, threshold, max_var,
                   mask, labels, stats, current, stack, area, min_x, max_x, min_y, max_y,
                   pos, clean, walls, outside, tex, out, files, exitcode, pushed, popped>>

\* One iteration of "for _ in range(DILATION_ITERATIONS)".
WE_Dilate ==
    /\ pc = "we_dilate"
    /\ pil' = MaxFilter(pil, OpeningSize)
    /\ iter' = iter + 1
    /\ pc' = IF iter + 1 < DILATION_ITERATIONS THEN "we_dilate" ELSE "we_label"
    /\ UNCHANGED <<prog, argc, inputOk, textureOk, h, w, gray, threshold, max_var,
                   mask, labels, stats, current, stack, area, min_x, max_x, min_y, max_y,
                   pos, clean, walls, outside, tex, out, files, exitcode, pushed, popped>>

\* arr = (np.array(dilated) > 0); labels, stats = connected_components(arr)
WE_Label ==
    /\ pc = "we_label"
    /\ CCEnter(ToMask(pil))
    /\ UNCHANGED <<prog, argc, inputOk, textureOk, h, w, gray, threshold, max_var, pil,
                   iter, area, min_x, max_x, min_y, max_y, clean, walls, outside, tex,
                   out, files, exitcode>>

\* keep the components of area >= MIN_COMPONENT_AREA_PX; thinned = clean * 255
WE_Filter ==
    /\ pc = "we_filter"
    /\ clean' = KeptMask(labels, stats, MIN_COMPONENT_AREA_PX)
    /\ pil' = ToImage(clean')
    /\ iter' = 0
    /\ pc' = IF EROSION_ITERATIONS > 0 THEN "we_thin" ELSE "we_save"
    /\ UNCHANGED <<prog, argc, inputOk, textureOk, h, w, gray, threshold, max_var,
                   mask, labels, stats, current, stack, area, min_x, max_x, min_y, max_y,
                   pos, walls, outside, tex, out, files, exitcode, pushed, popped>>

\* One iteration of "for _ in range(EROSION_ITERATIONS)".
WE_Thin ==
    /\ pc = "we_thin"
    /\ pil' = MinFilter(pil, ErosionSize)
    /\ iter' = iter + 1
    /\ pc' = IF iter + 1 < EROSION_ITERATIONS THEN "we_thin" ELSE "we_save"
    /\ UNCHANGED <<prog, argc, inputOk, textureOk, h, w, gray, threshold, max_var,
                   mask, labels, stats, current, stack, area, min_x, max_x, min_y, max_y,
                   pos, clean, walls, outside, tex, out, files, exitcode, pushed, popped>>

\* clean = (np.array(thinned) > 0); final = (1 - clean) * 255; save(output_path)
WE_Save ==
    /\ pc = "we_save"
    /\ clean' = ToMask(pil)
    /\ out' = Invert(clean')
    /\ files' = files + 1
    /\ exitcode' = 0
    /\ pc' = "done"
    /\ UNCHANGED <<prog, argc, inputOk, textureOk, h, w, gray, threshold, max_var, pil,
                   iter, mask, labels, stats, current, stack, area, min_x, max_x, min_y,
                   max_y, pos, walls, outside, tex, pushed, popped>>

(***************************************************************************)
(* generate_floor_mask: filtering, smoothing, compositing                  *)
(***************************************************************************)
\* img = Image.open(input_path).convert("L"); gray = np.array(img)
FF_Load ==
    /\ pc = "ff_load"
    /\ IF inputOk
       THEN pc' = "ff_binarize" /\ UNCHANGED exitcode
       ELSE pc' = "failed" /\ exitcode' = 1
    /\ UNCHANGED <<prog, argc, inputOk, textureOk, h, w, gray, threshold, max_var, pil,
                   iter, mask, labels, stats, current, stack, area, min_x, max_x, min_y,
                   max_y, pos, clean, walls, outside, tex, out, files, pushed, popped>>

\* keep the components of area >= MIN_FLOOR_AREA_PX; pil = clean * 255
FF_Filter ==
    /\ pc = "ff_filter"
    /\ clean' = KeptMask(labels, stats, MIN_FLOOR_AREA_PX)
    /\ pil' = IF SMOOTH_ITERATIONS > 0 THEN ToImage(clean') ELSE pil
    /\ iter' = 0
    /\ pc' = IF SMOOTH_ITERATIONS > 0 THEN "ff_smooth" ELSE "ff_texture"
    /\ UNCHANGED <<prog, argc, inputOk, textureOk, h, w, gray, threshold, max_var,
                   mask, labels, stats, current, stack, area, min_x, max_x, min_y, max_y,
                   pos, walls, outside, tex, out, files, exitcode, pushed, popped>>

\* pil.filter(MaxFilter(size=3)) then .filter(MinFilter(size=3)), size = 3
ErodeThenDilate(img) == MaxFilter(MinFilter(img, 3), 3)
DilateThenErode(img) == MinFilter(MaxFilter(img, 3), 3)

\* One iteration of "for _ in range(SMOOTH_ITERATIONS)".
FF_Smooth ==
    /\ pc = "ff_smooth"
    /\ pil' = DilateThenErode(pil)
    /\ iter' = iter + 1
    /\ pc' = IF iter + 1 < SMOOTH_ITERATIONS THEN "ff_smooth" ELSE "ff_smooth_end"
    /\ UNCHANGED <<prog, argc, inputOk, textureOk, h, w, gray, threshold, max_var,
                   mask, labels, stats, current, stack, area, min_x, max_x, min_y, max_y,
                   pos, clean, walls, outside, tex, out, files, exitcode, pushed, popped>>

\* clean = (np.array(pil) > 0).astype(np.uint8)
FF_SmoothEnd ==
    /\ pc = "ff_smooth_end"
    /\ clean' = ToMask(pil)
    /\ pc' = "ff_texture"
    /\ UNCHANGED <<prog, argc, inputOk, textureOk, h, w, gray, threshold, max_var, pil,
                   iter, mask, labels, stats, current, stack, area, min_x, max_x, min_y,
                   max_y, pos, walls, outside, tex, out, files, exitcode, pushed, popped>>

\* tex_img = Image.open(default_tex).convert("RGB")
FF_TextureAfterSave ==
    /\ pc = "ff_texture"
    /\ files' = files + 1
    /\ IF textureOk
       THEN pc' = "done" /\ exitcode' = 0
       ELSE pc' = "failed" /\ exitcode' = 1
    /\ UNCHANGED <<prog, argc, inputOk, textureOk, h, w, gray, threshold, max_var, pil,
                   iter, mask, labels, stats, current, stack, area, min_x, max_x, min_y,
                   max_y, pos, clean, walls, outside, tex, out, pushed, popped>>
FF_Texture ==
    /\ pc = "ff_texture"
    /\ IF textureOk
       THEN pc' = "ff_compose" /\ UNCHANGED exitcode
       ELSE pc' = "failed" /\ exitcode' = 1
    /\ UNCHANGED <<prog, argc, inputOk, textureOk, h, w, gray, threshold, max_var, pil,
                   iter, mask, labels, stats, current, stack, area, min_x, max_x, min_y,
                   max_y, pos, clean, walls, outside, tex, out, files, pushed, popped>>

\* tiled = np.tile(tex_arr, (reps_y, reps_x, 1))[:h, :w, :]
\* Copy (ry, rx) of the texture covers rows ry*th..ry*th+th-1 and columns
\* rx*tw..rx*tw+tw-1; the pixel at (x, y) comes from the copy that covers it.
Tiled(x, y) ==
    LET reps_y == (h + tex.th - 1) \div tex.th
        reps_x == (w + tex.tw - 1) \div tex.tw
        ry == CHOOSE r \in 0..(reps_y - 1) : r * tex.th <= y /\ y < (r + 1) * tex.th
        rx == CHOOSE r \in 0..(reps_x - 1) : r * tex.tw <= x /\ x < (r + 1) * tex.tw
    IN  tex.px[Idx(x - rx * tex.tw, y - ry * tex.th, tex.tw)]

White == <<255, 255, 255>>
Black == <<0, 0, 0>>

\* out = white; out[walls == 1] = (0, 0, 0); out[clean == 1] = tiled[clean == 1]
FF_Compose ==
    /\ pc = "ff_compose"
    /\ out' = [i \in 1..(h * w) |->
                 IF clean[i] = 1 THEN Tiled(XOf(i, w), YOf(i, w))
                 ELSE IF walls[i] = 1 THEN Black
                 ELSE White]
    /\ pc' = "ff_save"
    /\ UNCHANGED <<prog, argc, inputOk, textureOk, h, w, gray, threshold, max_var, pil,
                   iter, mask, labels, stats, current, stack, area, min_x, max_x, min_y,
                   max_y, pos, clean, walls, outside, tex, files, exitcode, pushed, popped>>

\* Image.fromarray(out).save(output_path)
FF_Save ==
    /\ pc = "ff_save"
    /\ files' = files + 1
    /\ exitcode' = 0
    /\ pc' = "done"
    /\ UNCHANGED <<prog, argc, inputOk, textureOk, h, w, gray, threshold, max_var, pil,
                   iter, mask, labels, stats, current, stack, area, min_x, max_x, min_y,
                   max_y, pos, clean, walls, outside, tex, out, pushed, popped>>

(***************************************************************************)
(* Inputs                                                                  *)
(***************************************************************************)
\* Every (height, width) of at most MaxPixels pixels.
Shapes == {s \in (1..MaxPixels) \X (1..MaxPixels) : s[1] * s[2] <= MaxPixels}

NoTexture == [th |-> 0, tw |-> 0, px |-> <<>>]

\* Nothing computed yet.
Fresh ==
    /\ threshold = 0 /\ max_var = <<>>
    /\ pil = <<>> /\ iter = 0
    /\ area = 0 /\ min_x = 0 /\ max_x = 0 /\ min_y = 0 /\ max_y = 0
    /\ out = <<>> /\ files = 0 /\ exitcode = -1

Unset ==
    /\ argc = 3 /\ inputOk = TRUE /\ textureOk = TRUE
    /\ tex = NoTexture
    /\ clean = <<>>
    /\ Fresh

\* connected_components called on any mask of any shape within the bounds.
InitCC ==
    /\ prog = "connected_components"
    /\ \E s \in Shapes :
         /\ h = s[1] /\ w = s[2]
         /\ mask \in [1..(s[1] * s[2]) -> {0, 1}]
         /\ labels = Fill(s[1] * s[2], -1)
         /\ pushed = Fill(s[1] * s[2], 0)
         /\ popped = Fill(s[1] * s[2], 0)
    /\ stats = <<>> /\ current = 0 /\ stack = <<>> /\ pos = 1
    /\ gray = <<>> /\ walls = <<>> /\ outside = <<>>
    /\ pc = "cc_scan"
    /\ Unset

\* generate_floor_mask after loading any image whose intensities lie on either
\* side of WALL_THRESHOLD.
InitFlood ==
    /\ prog = "generate_floor_mask"
    /\ \E s \in Shapes :
         /\ h = s[1] /\ w = s[2]
         /\ gray \in [1..(s[1] * s[2]) -> {WALL_THRESHOLD - 1, WALL_THRESHOLD}]
    /\ mask = <<>> /\ labels = <<>> /\ pushed = <<>> /\ popped = <<>>
    /\ stats = <<>> /\ current = 0 /\ stack = <<>> /\ pos = 1
    /\ walls = <<>> /\ outside = <<>>
    /\ pc = "ff_binarize"
    /\ Unset

\* remove_interior_lines after loading a one-row image of up to MaxOtsuPix pixels:
\* any image over OtsuLevels, and every constant image.
OtsuLevels == {0, 1, 2, 100, 101, 254, 255}

InitOtsu ==
    /\ prog = "remove_interior_lines"
    /\ h = 1
    /\ \E n \in 1..MaxOtsuPix :
         /\ w = n
         /\ \/ gray \in [1..n -> OtsuLevels]
            \/ \E c \in 0..255 : gray = Fill(n, c)
    /\ mask = <<>> /\ labels = <<>> /\ pushed = <<>> /\ popped = <<>>
    /\ stats = <<>> /\ current = 0 /\ stack = <<>> /\ pos = 1
    /\ walls = <<>> /\ outside = <<>>
    /\ pc = "we_otsu"
    /\ Unset

\* remove_interior_lines up to the binary image.
NextOtsu == WE_Otsu \/ WE_Binarize
SpecOtsu == InitOtsu /\ [][NextOtsu]_vars

\* generate_floor_mask at its smoothing step, on any kept-floor mask of any shape
\* within the bounds.
InitSmooth ==
    /\ prog = "generate_floor_mask"
    /\ \E s \in Shapes :
         /\ h = s[1] /\ w = s[2]
         /\ clean \in [1..(s[1] * s[2]) -> {0, 1}]
    /\ argc = 3 /\ inputOk = TRUE /\ textureOk = TRUE /\ tex = NoTexture
    /\ threshold = 0 /\ max_var = <<>>
    /\ pil = ToImage(clean) /\ iter = 0
    /\ area = 0 /\ min_x = 0 /\ max_x = 0 /\ min_y = 0 /\ max_y = 0
    /\ out = <<>> /\ files = 0 /\ exitcode = -1
    /\ mask = <<>> /\ labels = <<>> /\ pushed = <<>> /\ popped = <<>>
    /\ stats = <<>> /\ current = 0 /\ stack = <<>> /\ pos = 1
    /\ gray = <<>> /\ walls = <<>> /\ outside = <<>>
    /\ pc = "ff_smooth"

NextSmooth == FF_Smooth \/ FF_SmoothEnd
SpecSmooth == InitSmooth /\ [][NextSmooth]_vars

(***************************************************************************)
(* The two programs run from the command line on test images.              *)
(***************************************************************************)
\* A size x size image: 255 everywhere, 0 on a square outline of the given
\* thickness whose outer edge runs from lo to hi, and on the dot dlo..dhi squared;
\* the pixel (sx, sy) has value sv.
InOutline(x, y, lo, hi, thick) ==
    /\ lo <= x /\ x <= hi /\ lo <= y /\ y <= hi
    /\ \/ x - lo < thick \/ hi - x < thick
       \/ y - lo < thick \/ hi - y < thick

InDot(x, y, dlo, dhi) == dlo <= x /\ x <= dhi /\ dlo <= y /\ y <= dhi

Blueprint(size, lo, hi, thick, dlo, dhi) ==
    [i \in 1..(size * size) |->
        IF InOutline(XOf(i, size), YOf(i, size), lo, hi, thick)
           \/ InDot(XOf(i, size), YOf(i, size), dlo, dhi)
        THEN 0 ELSE 255]

\* 50x50, a 40x40 outline 3 px thick, a 5x5 dot in the centre.
ThinWallImage == Blueprint(50, 5, 44, 3, 22, 26)
\* The same with walls 8 px thick and the dot's centre pixel at intensity 1.
ThickWallImage == [Blueprint(50, 5, 44, 8, 22, 26) EXCEPT ![Idx(24, 24, 50)] = 1]

\* 27x27: a closed 1 px outline from 1 to 25 around a 23x23 room.
RoomImage == Blueprint(27, 1, 25, 1, 1, 0)
\* 25x25: walls on the whole border around a 23x23 room, except that the wall
\* steps inwards at the top (pixel (12, 0) is open and (12, 1) is wall), and a
\* one-pixel pillar stands at (12, 12).
PillarImage ==
    [Blueprint(25, 0, 24, 1, 12, 12) EXCEPT ![Idx(12, 0, 25)] = 255,
                                            ![Idx(12, 1, 25)] = 0]

WallInputs == {[size |-> 50, px |-> ThinWallImage], [size |-> 50, px |-> ThickWallImage]}
FloorInputs == {[size |-> 27, px |-> RoomImage], [size |-> 25, px |-> PillarImage]}

\* A 2x3 texture of six colours, none of them black or white.
WoodTexture == [th |-> 2, tw |-> 3,
                px |-> << <<139, 90, 43>>, <<160, 110, 60>>, <<120, 80, 40>>,
                          <<150, 100, 50>>, <<130, 85, 45>>, <<170, 120, 70>> >>]

InitMain ==
    /\ argc \in 1..3
    /\ inputOk \in BOOLEAN
    /\ \/ /\ prog = "remove_interior_lines"
          /\ \E img \in WallInputs : h = img.size /\ w = img.size /\ gray = img.px
          /\ textureOk = TRUE /\ tex = NoTexture
       \/ /\ prog = "generate_floor_mask"
          /\ \E img \in FloorInputs : h = img.size /\ w = img.size /\ gray = img.px
          /\ textureOk \in BOOLEAN /\ tex = WoodTexture
    /\ mask = <<>> /\ labels = <<>> /\ pushed = <<>> /\ popped = <<>>
    /\ stats = <<>> /\ current = 0 /\ stack = <<>> /\ pos = 1
    /\ walls = <<>> /\ outside = <<>> /\ clean = <<>>
    /\ pc = "main"
    /\ Fresh

Init == InitMain
Next ==
    \/ Main
    \/ WE_Load \/ WE_Otsu \/ WE_Binarize \/ WE_OpenErode \/ WE_OpenDilate \/ WE_Dilate
    \/ WE_Label \/ WE_Filter \/ WE_Thin \/ WE_Save
    \/ FF_Load \/ FF_Binarize \/ FF_Seed \/ FF_Pop \/ FF_Floor \/ FF_Filter \/ FF_Smooth
    \/ FF_SmoothEnd \/ FF_Texture \/ FF_Compose \/ FF_Save
    \/ CC_Seed \/ CC_Pop
Spec == Init /\ [][Next]_vars

\* connected_components on its own.
NextCC == CC_Seed \/ CC_Pop
SpecCC == InitCC /\ [][NextCC]_vars

\* generate_floor_mask up to the candidate floor mask.
NextFlood == FF_Binarize \/ FF_Seed \/ FF_Pop \/ FF_Floor
SpecFlood == InitFlood /\ [][NextFlood]_vars

\* Both traversals: connected_components on any mask, and the flood fill followed
\* by connected_components on the candidate floor.
InitTrav == InitCC \/ InitFlood
NextTrav == CC_Seed \/ CC_Pop \/ FF_Binarize \/ FF_Seed \/ FF_Pop \/ FF_Floor
SpecTrav == InitTrav /\ [][NextTrav]_vars

(***************************************************************************)
(* Reference notions the claims are stated with.                           *)
(***************************************************************************)
Adjacent4(i, j, ww) ==
    \/ YOf(i, ww) = YOf(j, ww) /\ (XOf(i, ww) - XOf(j, ww) \in {-1, 1})
    \/ XOf(i, ww) = XOf(j, ww) /\ (YOf(i, ww) - YOf(j, ww) \in {-1, 1})

DiagonalOnly(i, j, ww) ==
    /\ XOf(i, ww) - XOf(j, ww) \in {-1, 1}
    /\ YOf(i, ww) - YOf(j, ww) \in {-1, 1}

\* The pixels of P joined to a pixel of S by a 4-connected path inside P.
RECURSIVE Grow(_, _, _)
Grow(S, P, ww) ==
    LET N == S \cup {j \in P : \E i \in S : Adjacent4(i, j, ww)}
    IN  IF N = S THEN S ELSE Grow(N, P, ww)

Ones(m) == {i \in DOMAIN m : m[i] = 1}
Zeros(m) == {i \in DOMAIN m : m[i] = 0}
OnBorder(i, hh, ww) ==
    XOf(i, ww) = 0 \/ XOf(i, ww) = ww - 1 \/ YOf(i, ww) = 0 \/ YOf(i, ww) = hh - 1

RECURSIVE SeqSum(_, _)
SeqSum(s, k) == IF k > Len(s) THEN 0 ELSE s[k] + SeqSum(s, k + 1)

CCReturned == prog = "connected_components" /\ pc = "done"

(***************************************************************************)
(* C1: when connected_components returns, every background pixel has label *)
(* -1, every foreground pixel has a label >= 0, and two foreground pixels   *)
(* have the same label exactly when a path of foreground pixels with        *)
(* up/down/left/right steps joins them (so pixels that touch only           *)
(* diagonally, with no such path, get different labels).                    *)
(***************************************************************************)
C1_Labels ==
    CCReturned =>
        /\ \A i \in Zeros(mask) : labels[i] = -1
        /\ \A i \in Ones(mask) : labels[i] >= 0
        /\ \A i \in Ones(mask) :
             LET comp == Grow({i}, Ones(mask), w)
             IN  \A j \in Ones(mask) : (labels[i] = labels[j]) <=> (j \in comp)

\* A returned call whose mask has two foreground pixels touching only diagonally
\* that got different labels, and two distinct foreground pixels sharing a label.
C1_Witness ==
    /\ CCReturned
    /\ \E i, j \in Ones(mask) : DiagonalOnly(i, j, w) /\ labels[i] # labels[j]
    /\ \E i, j \in Ones(mask) : i # j /\ labels[i] = labels[j]

(***************************************************************************)
(* C2: when connected_components returns, there is one stats row per label, *)
(* the row of label l holds the exact pixel count of l and the tight        *)
(* bounding box (min_x, min_y, width, height) of its pixels, area is at     *)
(* most width*height, and the areas sum to the number of foreground pixels. *)
(***************************************************************************)
C2_Stats ==
    CCReturned =>
        /\ Len(stats) = current
        /\ \A l \in 1..Len(stats) :
             LET P  == {i \in DOMAIN labels : labels[i] = l - 1}
                 xs == {XOf(i, w) : i \in P}
                 ys == {YOf(i, w) : i \in P}
             IN  /\ P # {}
                 /\ stats[l][5] = Cardinality(P)
                 /\ stats[l][1] = SetMin(xs)
                 /\ stats[l][2] = SetMin(ys)
                 /\ stats[l][3] = SetMax(xs) - SetMin(xs) + 1
                 /\ stats[l][4] = SetMax(ys) - SetMin(ys) + 1
                 /\ stats[l][5] <= stats[l][3] * stats[l][4]
        /\ SeqSum([l \in 1..Len(stats) |-> stats[l][5]], 1) = Cardinality(Ones(mask))
        /\ \A i \in Ones(mask) : labels[i] \in 0..(Len(stats) - 1)

\* A returned call with at least two components, one of them not filling its
\* bounding box and not starting at the origin.
C2_Witness ==
    /\ CCReturned
    /\ Len(stats) >= 2
    /\ \E l \in 1..Len(stats) :
         /\ stats[l][5] < stats[l][3] * stats[l][4]
         /\ stats[l][1] > 0
         /\ stats[l][3] > 1 /\ stats[l][4] > 1

(***************************************************************************)
(* C3: when the border flood fill finishes, outside is exactly the set of   *)
(* non-wall pixels joined by a 4-connected non-wall path to a non-wall      *)
(* border pixel; no wall pixel is ever in outside; and if every border      *)
(* pixel is a wall, outside is empty and the candidate floor is every       *)
(* non-wall pixel.                                                          *)
(***************************************************************************)
BorderSeeds == {i \in Zeros(walls) : OnBorder(i, h, w)}

C3_Outside ==
    /\ (pc \in {"ff_seed", "ff_flood", "ff_floor", "cc_scan"}) =>
          \A i \in Ones(outside) : walls[i] = 0
    /\ (pc \in {"ff_floor", "cc_scan"}) =>
          /\ Ones(outside) = Grow(BorderSeeds, Zeros(walls), w)
          /\ BorderSeeds = {} => Ones(outside) = {}
    /\ (pc = "cc_scan") =>
          /\ Ones(mask) = Zeros(walls) \ Ones(outside)
          /\ BorderSeeds = {} => Ones(mask) = Zeros(walls)

\* The fill has finished on an image with a wall-enclosed pocket that is not in
\* outside while other non-wall pixels are.
C3_Witness ==
    /\ pc = "ff_floor"
    /\ Ones(outside) # {}
    /\ \E i \in Zeros(walls) : ~OnBorder(i, h, w) /\ outside[i] = 0

\* The fill has finished on an image whose border is all wall and that has
\* non-wall pixels: the second case of C3.
C3_WitnessBlocked ==
    /\ pc = "cc_scan"
    /\ BorderSeeds = {}
    /\ Ones(mask) # {}

(***************************************************************************)
(* C10: in both traversals each pixel is pushed at most once and every      *)
(* pushed pixel is popped exactly once: the stack holds exactly the pushed, *)
(* not yet popped pixels, it is empty whenever connected_components scans   *)
(* for a new seed, at the end of a traversal the stack is empty and the     *)
(* popped pixels are exactly the foreground (respectively outside) pixels,  *)
(* and the pops never exceed height*width.                                  *)
(***************************************************************************)
InStack(i) == \E k \in 1..Len(stack) : Idx(stack[k][1], stack[k][2], w) = i

C10_VisitOnce ==
    /\ \A i \in DOMAIN pushed :
         /\ pushed[i] <= 1
         /\ popped[i] <= pushed[i]
         /\ InStack(i) <=> (pushed[i] = 1 /\ popped[i] = 0)
    /\ Len(stack) = Cardinality({i \in DOMAIN pushed : InStack(i)})
    /\ SeqSum(popped, 1) <= h * w
    /\ pc = "cc_scan" => stack = <<>>
    /\ pc \in {"cc_fill", "ff_flood"} => stack # <<>>
    /\ pc = "ff_floor" =>
          /\ stack = <<>>
          /\ \A i \in DOMAIN popped : popped[i] = outside[i]
    /\ pc \in {"done", "ff_filter"} =>
          /\ stack = <<>>
          /\ \A i \in DOMAIN popped : popped[i] = mask[i]

\* connected_components has returned inside generate_floor_mask after a flood
\* fill that marked pixels outside, on a candidate floor of at least one pixel:
\* both traversals have run and popped.
C10_Witness ==
    /\ pc = "ff_filter"
    /\ Ones(outside) # {}
    /\ SeqSum(popped, 1) >= 1

(***************************************************************************)
(* C4: for an image whose intensities form two well-separated clusters     *)
(* (dark values up to a, bright values from b, the gap b - a wider than     *)
(* either cluster), the threshold lies strictly between the clusters,       *)
(* a < t < b, and gray < t selects exactly the dark-cluster pixels.         *)
(***************************************************************************)
GrayValues == {gray[i] : i \in DOMAIN gray}

TwoClusters(a, b) ==
    /\ a \in GrayValues /\ b \in GrayValues
    /\ a + 1 < b
    /\ \A v \in GrayValues : v <= a \/ v >= b
    /\ \A v \in GrayValues : v <= a => a - v < b - a
    /\ \A v \in GrayValues : v >= b => v - b < b - a

C4_BetweenClusters ==
    (prog = "remove_interior_lines" /\ pc = "we_open_erode") =>
        \A a, b \in GrayValues :
            TwoClusters(a, b) =>
                /\ a < threshold /\ threshold < b
                /\ \A i \in DOMAIN gray : (pil[i] = 255) <=> (gray[i] <= a)

(***************************************************************************)
(* C5: for an image of one constant intensity c, otsu_threshold returns 0   *)
(* with max_var still at its -1 sentinel, and the binary image gray < t is  *)
(* uniform (all foreground or all background).                              *)
(***************************************************************************)
ConstantImage == \A i, j \in DOMAIN gray : gray[i] = gray[j]

C5_ConstantImage ==
    (prog = "remove_interior_lines" /\ ConstantImage) =>
        /\ pc \in {"we_binarize", "we_open_erode"} => threshold = 0 /\ max_var = <<>>
        /\ pc = "we_open_erode" =>
              \/ \A i \in DOMAIN pil : pil[i] = 0
              \/ \A i \in DOMAIN pil : pil[i] = 255

\* A constant image of several pixels with a non-zero intensity has been binarized.
C5_Witness ==
    /\ prog = "remove_interior_lines" /\ pc = "we_open_erode"
    /\ ConstantImage /\ Len(gray) >= 2 /\ gray[1] = 200
    /\ threshold = 0

(***************************************************************************)
(* C6: in the image generate_floor_mask writes, every wall pixel is black, *)
(* every pixel of the outside mask is white, and every kept floor pixel at  *)
(* (y, x) carries the texture pixel at (y mod th, x mod tw): no wall or     *)
(* outside pixel is overwritten by texture, smoothing included.             *)
(***************************************************************************)
FloorWritten == prog = "generate_floor_mask" /\ pc = "done"

C6_Composite ==
    FloorWritten =>
        \A i \in 1..(h * w) :
            /\ walls[i] = 1 => out[i] = Black
            /\ outside[i] = 1 => out[i] = White
            /\ clean[i] = 1 =>
                  out[i] = tex.px[Idx(XOf(i, w) % tex.tw, YOf(i, w) % tex.th, tex.tw)]

(***************************************************************************)
(* C7 as claimed: on the 50x50 image with a 40x40 outline 3 px thick and a *)
(* 5x5 dot, the written image has the outline black and the dot white.      *)
(***************************************************************************)
ThinWallWritten ==
    prog = "remove_interior_lines" /\ pc = "done" /\ gray = ThinWallImage

C7_OutlineRetained ==
    ThinWallWritten =>
        \A i \in 1..(h * w) :
            /\ InOutline(XOf(i, w), YOf(i, w), 5, 44, 3) => out[i] = 0
            /\ InDot(XOf(i, w), YOf(i, w), 22, 26) => out[i] = 255

(***************************************************************************)
(* C7 as amended: on that image the written image is white everywhere:      *)
(* the dot is removed and so is the outline.                                *)
(***************************************************************************)
C7_AllWhite ==
    ThinWallWritten => \A i \in 1..(h * w) : out[i] = 255

\* The run on that image has written its one output file.
C7_Witness ==
    ThinWallWritten /\ files = 1 /\ Len(out) = 2500

(***************************************************************************)
(* C8: the output file is written last.  A run given fewer than two         *)
(* positional arguments ends with the usage message and status 1; a run     *)
(* whose input image, or whose texture, cannot be loaded fails; neither has *)
(* written a file.  A run ends only as done with exactly one file written,  *)
(* or as failed or usage with none.                                         *)
(***************************************************************************)
Ended == pc \in {"done", "failed", "usage"}

\* The guard of some step holds.
Running ==
    /\ pc \in {"main", "we_load", "we_otsu", "we_binarize", "we_open_erode",
               "we_open_dilate", "we_dilate", "we_label", "we_filter", "we_thin",
               "we_save", "ff_load", "ff_binarize", "ff_seed", "ff_flood", "ff_floor",
               "ff_filter", "ff_smooth", "ff_smooth_end", "ff_texture", "ff_compose",
               "ff_save", "cc_scan", "cc_fill"}
    /\ pc \in {"cc_fill", "ff_flood"} => stack # <<>>

C8_NoPartialOutput ==
    /\ files \in {0, 1}
    /\ files = 1 <=> pc = "done"
    /\ pc = "done" => exitcode = 0
    /\ pc \in {"failed", "usage"} => exitcode = 1
    /\ (argc < 3 /\ pc # "main") => pc = "usage"
    /\ (argc >= 3 /\ ~inputOk /\ Ended) => pc = "failed"
    /\ (argc >= 3 /\ prog = "generate_floor_mask" /\ ~textureOk /\ Ended) => pc = "failed"
    /\ ~Ended => Running

\* generate_floor_mask has failed on its texture, after the whole mask pipeline ran.
C8_Witness ==
    /\ pc = "failed" /\ prog = "generate_floor_mask"
    /\ inputOk /\ ~textureOk /\ clean # <<>>
    /\ files = 0

(***************************************************************************)
(* C9: the smoothing loop (3x3 maximum then 3x3 minimum, windows clipped at *)
(* the image edges) removes no foreground pixel: every pixel that is 1 in   *)
(* the mask before smoothing is set in the smoothed image.                  *)
(***************************************************************************)
C9_ClosingExtensive ==
    (prog = "generate_floor_mask" /\ pc = "ff_smooth_end") =>
        \A i \in DOMAIN clean : clean[i] = 1 => pil[i] > 0

\* Smoothing has run on a mask with a foreground pixel on the image border and
\* has filled a background pixel.
C9_Witness ==
    /\ prog = "generate_floor_mask" /\ pc = "ff_smooth_end"
    /\ \E i \in DOMAIN clean : clean[i] = 1 /\ OnBorder(i, h, w)
    /\ \E i \in DOMAIN clean : clean[i] = 0 /\ pil[i] > 0
    /\ \E i \in DOMAIN clean : clean[i] = 0 /\ pil[i] = 0

====
